---- MODULE Spec2Model ----
(***************************************************************************)
(* Model of paymentTracker (src/main.go, first program of the file):       *)
(* the billing-period reconciliation pass taskToRun and its helpers.       *)
(*                                                                         *)
(* Instants are seconds since 00:00:00 on 1 January of EpochYear in the    *)
(* configured zone; the zone is taken to have a fixed offset (the default  *)
(* "GMT"), so a calendar day is always 86400 seconds.                      *)
(***************************************************************************)
EXTENDS Integers, Sequences, FiniteSets, TLC

(***************************************************************************)
(* Calendar arithmetic of Go's time package, as used by the program.       *)
(***************************************************************************)
NowYears == {2023, 2024}

EpochYear == (CHOOSE y \in NowYears : \A z \in NowYears : y <= z) - 1

SecondsPerDay == 24 * 60 * 60

IsLeap(y) == (y % 4 = 0) /\ ((y % 100 # 0) \/ (y % 400 = 0))

DaysIn(y, m) ==
    IF m = 2 THEN (IF IsLeap(y) THEN 29 ELSE 28)
    ELSE IF m \in {4, 6, 9, 11} THEN 30 ELSE 31

LeapsBefore(y) == ((y - 1) \div 4) - ((y - 1) \div 100) + ((y - 1) \div 400)

EpochLeaps == LeapsBefore(EpochYear)

DaysBeforeYear(y) == 365 * (y - EpochYear) + LeapsBefore(y) - EpochLeaps

CumulativeDays == <<0, 31, 59, 90, 120, 151, 181, 212, 243, 273, 304, 334, 365>>

\* days of year y before the first of month m, m in 1..13
DaysBeforeMonth(y, m) ==
    CumulativeDays[m] + (IF m > 2 /\ IsLeap(y) THEN 1 ELSE 0)

\* time.Date(year, month, day, 0, 0, sec, 0, loc): the month is normalised
\* into 1..12 first (carrying into the year), then day - 1 days are added to
\* the first of that month, so a day past the month's end rolls forward.
Date(y, m, d, sec) ==
    LET yy == y + ((m - 1) \div 12)
        mm == ((m - 1) % 12) + 1
    IN  (DaysBeforeYear(yy) + DaysBeforeMonth(yy, mm) + (d - 1)) * SecondsPerDay + sec

DayNumber(t) == t \div SecondsPerDay

SecondOfDay(t) == t % SecondsPerDay

\* the calendar date of an instant.  The year is at most one above the
\* estimate by years of 366 days (365 before the epoch), the month at most one
\* above the estimate by months of 32 days.
Civil(t) ==
    LET dn == DayNumber(t)
        g  == EpochYear + (dn \div (IF dn >= 0 THEN 366 ELSE 365))
        y  == IF DaysBeforeYear(g + 1) <= dn THEN g + 1 ELSE g
        n  == dn - DaysBeforeYear(y)
        h  == (n \div 32) + 1
        m  == IF DaysBeforeMonth(y, h + 1) <= n THEN h + 1 ELSE h
    IN  [year |-> y, month |-> m, day |-> n - DaysBeforeMonth(y, m) + 1]

Year(t) == Civil(t).year

Month(t) == Civil(t).month

Day(t) == Civil(t).day

\* t.AddDate(years, months, days): time.Date on the shifted fields,
\* normalised the same way (31 January plus one month is 3 or 2 March).
AddDate(t, years, months, days) ==
    LET c == Civil(t)
    IN  Date(c.year + years, c.month + months, c.day + days, SecondOfDay(t))

\* t.Add(d) for a duration of d seconds.
Add(t, d) == t + d

\* t.Format("2006-01-02"): the calendar date of the instant.
FormatDate(t) == LET c == Civil(t) IN <<c.year, c.month, c.day>>

(***************************************************************************)
(* IEEE-754 binary64 values, as produced by strconv.ParseFloat and summed  *)
(* by float64 "+=".  A non-negative finite value is mant * 2^exp with mant *)
(* a sequence of Precision bits, most significant first and leading bit 1; *)
(* zero is the empty mantissa.  Bit sequences stand for the 53-bit         *)
(* significands, which exceed the checker's integer range.                 *)
(***************************************************************************)
Precision == 53

Zeros(k) == [i \in 1..k |-> 0]

RECURSIVE Pow2(_)
Pow2(k) ==
    IF k = 0 THEN 1
    ELSE LET h == Pow2(k \div 2)
         IN  IF k % 2 = 0 THEN h * h ELSE 2 * h * h

\* 2^k modulo d
RECURSIVE Pow2Mod(_, _)
Pow2Mod(k, d) ==
    IF k = 0 THEN 1 % d
    ELSE LET h == Pow2Mod(k \div 2, d)
         IN  IF k % 2 = 0 THEN (h * h) % d ELSE (2 * h * h) % d

\* the number of binary digits of a non-negative integer below 2^31
RECURSIVE BitLen(_)
BitLen(n) == IF n = 0 THEN 0 ELSE 1 + BitLen(n \div 2)

\* the binary digits of a non-negative integer, most significant first
Bits(n) ==
    LET l == BitLen(n)
    IN  [k \in 1..l |-> (n \div Pow2(l - k)) % 2]

RECURSIVE BitsToInt(_)
BitsToInt(b) ==
    IF Len(b) = 0 THEN 0
    ELSE IF Len(b) = 1 THEN b[1]
    ELSE LET h == Len(b) \div 2
         IN  BitsToInt(SubSeq(b, 1, h)) * Pow2(Len(b) - h)
                 + BitsToInt(SubSeq(b, h + 1, Len(b)))

StripZeros(b) ==
    IF \A i \in 1..Len(b) : b[i] = 0 THEN <<>>
    ELSE LET f == CHOOSE i \in 1..Len(b) :
                      b[i] = 1 /\ \A j \in 1..(i - 1) : b[j] = 0
         IN  SubSeq(b, f, Len(b))

\* exact sum of two bit sequences: the carry into position i is generated at
\* some less significant position and propagated through all between
AddBits(a, b) ==
    LET n  == IF Len(a) > Len(b) THEN Len(a) ELSE Len(b)
        pa == Zeros(n + 1 - Len(a)) \o a
        pb == Zeros(n + 1 - Len(b)) \o b
        carry(i) == \E j \in (i + 1)..(n + 1) :
                        /\ pa[j] + pb[j] = 2
                        /\ \A k \in (i + 1)..(j - 1) : pa[k] + pb[k] = 1
    IN  StripZeros([i \in 1..(n + 1) |->
                       (pa[i] + pb[i] + (IF carry(i) THEN 1 ELSE 0)) % 2])

\* exact product of a bit sequence and 100 = 64 + 32 + 4
MulHundred(a) ==
    AddBits(AddBits(a \o Zeros(6), a \o Zeros(5)), a \o Zeros(2))

\* the first k binary digits of the quotient n * 2^k / d after the point:
\* digit j is floor(2 * r / d) for r the remainder of n * 2^(j-1) by d
DivBits(n, d, k) ==
    Bits(n \div d) \o
        [j \in 1..k |-> (2 * (((n % d) * Pow2Mod(j - 1, d)) % d)) \div d]

\* whether n * 2^k / d leaves a remainder
DivInexact(n, d, k) == ((n % d) * Pow2Mod(k, d)) % d # 0

AnyOne(b) == \E i \in 1..Len(b) : b[i] = 1

FloatZero == [mant |-> <<>>, exp |-> 0]

\* bits * 2^exp (plus a remainder below one unit of the last bit when
\* sticky) rounded to nearest, ties to even, at Precision bits
RoundBits(bits, exp, sticky) ==
    LET b == StripZeros(bits)
        n == Len(b)
    IN  IF n = 0 THEN FloatZero
        ELSE IF n <= Precision
             THEN [mant |-> b \o Zeros(Precision - n), exp |-> exp - (Precision - n)]
        ELSE LET top  == SubSeq(b, 1, Precision)
                 rnd  == b[Precision + 1]
                 rest == sticky \/ AnyOne(SubSeq(b, Precision + 2, n))
                 up   == rnd = 1 /\ (rest \/ top[Precision] = 1)
                 e    == exp + (n - Precision)
                 inc  == AddBits(top, <<1>>)
             IN  IF ~up THEN [mant |-> top, exp |-> e]
                 ELSE IF Len(inc) > Precision
                      THEN [mant |-> SubSeq(inc, 1, Precision), exp |-> e + 1]
                      ELSE [mant |-> inc, exp |-> e]

\* float64 addition x + y of non-negative values: the exact sum, rounded
FloatAdd(x, y) ==
    IF x.mant = <<>> THEN y
    ELSE IF y.mant = <<>> THEN x
    ELSE LET e == IF x.exp < y.exp THEN x.exp ELSE y.exp
             a == x.mant \o Zeros(x.exp - e)
             b == y.mant \o Zeros(y.exp - e)
         IN  RoundBits(AddBits(a, b), e, FALSE)

RECURSIVE Pow10(_)
Pow10(k) == IF k = 0 THEN 1 ELSE 10 * Pow10(k - 1)

GuardBits == Precision + 11

\* strconv.ParseFloat(s, 64) of the decimal n / 10^f (n the digits of s with
\* the point removed, f the number of digits after the point): the nearest
\* binary64 value, ties to even
ParseFloat(n, f) ==
    IF f = 0 THEN RoundBits(Bits(n), 0, FALSE)
    ELSE RoundBits(DivBits(n, Pow10(f), GuardBits), 0 - GuardBits,
                   DivInexact(n, Pow10(f), GuardBits))

\* the value of x in hundredths, rounded to nearest with ties to even on the
\* exact binary value: the digits fmt.Sprintf("%.2f", x) prints
Hundredths(x) ==
    IF x.mant = <<>> THEN 0
    ELSE LET p == MulHundred(x.mant)
             n == Len(p)
         IN  IF x.exp >= 0 THEN BitsToInt(p \o Zeros(x.exp))
             ELSE IF 0 - x.exp > n THEN 0
             ELSE LET k    == n + x.exp
                      ip   == SubSeq(p, 1, k)
                      rnd  == p[k + 1]
                      rest == AnyOne(SubSeq(p, k + 2, n))
                      odd  == k > 0 /\ p[k] = 1
                      v    == BitsToInt(ip)
                  IN  IF rnd = 1 /\ (rest \/ odd) THEN v + 1 ELSE v

(***************************************************************************)
(* Text.  A summary is a sequence of characters (one-character strings);   *)
(* the two tag words "Payment" and "Total Remaining" are single elements.  *)
(***************************************************************************)
DigitChars == <<"0", "1", "2", "3", "4", "5", "6", "7", "8", "9">>

IsDigit(c) == \E v \in 1..10 : DigitChars[v] = c

DigitValue(c) == (CHOOSE v \in 1..10 : DigitChars[v] = c) - 1

At(s, i) == IF i \in 1..Len(s) THEN s[i] ELSE ""

\* length of the run of digits that starts at position i
DigitRun(s, i) ==
    CHOOSE n \in 0..Len(s) :
        /\ \A k \in 0..(n - 1) : IsDigit(At(s, i + k))
        /\ ~IsDigit(At(s, i + n))

\* (,\d{3})* from position j, greedy: the position after the last group
RECURSIVE Groups(_, _)
Groups(s, j) ==
    IF /\ At(s, j) = ","
       /\ IsDigit(At(s, j + 1)) /\ IsDigit(At(s, j + 2)) /\ IsDigit(At(s, j + 3))
    THEN Groups(s, j + 4)
    ELSE j

\* \d{1,3}(,\d{3})* at position i: the position after the match, 0 if none
GroupedEnd(s, i) ==
    LET n == DigitRun(s, i)
    IN  IF n = 0 THEN 0 ELSE Groups(s, i + (IF n > 3 THEN 3 ELSE n))

\* \d+ at position i: the position after the match, 0 if none
RunEnd(s, i) ==
    LET n == DigitRun(s, i)
    IN  IF n = 0 THEN 0 ELSE i + n

\* (\d{1,3}(,\d{3})*|\d+): Go's regexp prefers the left alternative, and the
\* rest of the pattern can match the empty string, so the left alternative
\* stands whenever it matches at all
IntegerEnd(s, i) ==
    IF GroupedEnd(s, i) # 0 THEN GroupedEnd(s, i) ELSE RunEnd(s, i)

\* (\.\d{1,2})? at position j, greedy
FractionEnd(s, j) ==
    IF At(s, j) = "." /\ IsDigit(At(s, j + 1))
    THEN (IF IsDigit(At(s, j + 2)) THEN j + 3 ELSE j + 2)
    ELSE j

\* the whole pattern at position i: the position after the match, 0 if none
MatchEnd(s, i) ==
    LET k == IF At(s, i) = "£" THEN i + 1 ELSE i
        e == IntegerEnd(s, k)
    IN  IF e = 0 THEN 0 ELSE FractionEnd(s, e)

\* re.FindStringSubmatch(summary)[0]: the leftmost match, <<>> if none
FindStringSubmatch(s) ==
    IF \A i \in 1..Len(s) : MatchEnd(s, i) = 0 THEN <<>>
    ELSE LET i == CHOOSE k \in 1..Len(s) :
                      MatchEnd(s, k) # 0 /\ \A j \in 1..(k - 1) : MatchEnd(s, j) = 0
         IN  SubSeq(s, i, MatchEnd(s, i) - 1)

\* strings.ReplaceAll(s, old, "") for a one-character old
ReplaceAll(s, old) == SelectSeq(s, LAMBDA c : c # old)

RECURSIVE DecimalValue(_)
DecimalValue(d) ==
    IF d = <<>> THEN 0
    ELSE 10 * DecimalValue(SubSeq(d, 1, Len(d) - 1)) + DigitValue(d[Len(d)])

\* strconv.ParseFloat(amountStr, 64) of digits with an optional point
ParseFloatString(str) ==
    LET digits == ReplaceAll(str, ".")
        frac   == IF \E i \in 1..Len(str) : str[i] = "."
                  THEN Len(str) - (CHOOSE i \in 1..Len(str) : str[i] = ".")
                  ELSE 0
    IN  ParseFloat(DecimalValue(digits), frac)

parseAmountFromSummary(summary) ==
    LET matches == FindStringSubmatch(summary)
    IN  IF matches = <<>> THEN [amount |-> FloatZero, ok |-> FALSE]
        ELSE [amount |-> ParseFloatString(ReplaceAll(ReplaceAll(matches, "£"), ",")),
              ok     |-> TRUE]

RECURSIVE DecimalDigits(_)
DecimalDigits(n) ==
    IF n < 10 THEN <<DigitChars[n + 1]>>
    ELSE Append(DecimalDigits(n \div 10), DigitChars[(n % 10) + 1])

\* fmt.Sprintf("Total Remaining £%.2f", total)
TotalRemainingSummary(total) ==
    LET h == Hundredths(total)
    IN  <<"Total Remaining", " ", "£">> \o DecimalDigits(h \div 100)
            \o <<".", DigitChars[((h % 100) \div 10) + 1], DigitChars[(h % 10) + 1]>>

\* strings.HasPrefix(summary, tag) for a tag word
HasPrefix(summary, tag) == Len(summary) >= 1 /\ summary[1] = tag

\* the store's free-text filter Q(tag): the text mentions the tag word
Mentions(summary, tag) == \E i \in 1..Len(summary) : summary[i] = tag

(***************************************************************************)
(* The program's pure computations (src/main.go).                          *)
(***************************************************************************)
\* strconv.Atoi: an optional sign and decimal digits, an error otherwise
Atoi(str) ==
    LET signed == str # <<>> /\ str[1] \in {"+", "-"}
        digits == IF signed THEN Tail(str) ELSE str
        ok     == digits # <<>> /\ \A k \in 1..Len(digits) : IsDigit(digits[k])
    IN  [value |-> IF ~ok THEN 0
                   ELSE IF str[1] = "-" THEN 0 - DecimalValue(digits)
                   ELSE DecimalValue(digits),
         ok    |-> ok]

\* no environment variable is set
EnvUnset == [TOTAL_REMAINING_ON |-> "", TIME_ZONE |-> "", PAY_DATE |-> <<>>,
             TICK_INTERVAL |-> <<>>]

DefaultPayDate == 1

DefaultTickInterval == 1

\* getConfig; TickInterval is in minutes
getConfig(e) ==
    [TotalRemainingOn |-> IF e.TOTAL_REMAINING_ON = "" THEN "First Day of the Month"
                          ELSE e.TOTAL_REMAINING_ON,
     TimeZone         |-> IF e.TIME_ZONE = "" THEN "GMT" ELSE e.TIME_ZONE,
     PayDate          |-> IF Atoi(e.PAY_DATE).ok THEN Atoi(e.PAY_DATE).value
                          ELSE DefaultPayDate,
     TickInterval     |-> IF Atoi(e.TICK_INTERVAL).ok THEN Atoi(e.TICK_INTERVAL).value
                          ELSE DefaultTickInterval]

LastDay == "Last Day of the Month"

FirstDay == "First Day of the Month"

PayDay == "Pay Date"

Policies == {LastDay, FirstDay, PayDay}

\* a current period chosen with "day > PayDate" in place of "day >= PayDate"
CurrentPeriodStrict(now, config) ==
    LET c == Civil(now)
        s == IF c.day > config.PayDate
             THEN Date(c.year, c.month, config.PayDate, 0)
             ELSE Date(c.year, c.month - 1, config.PayDate, 0)
    IN  [startDate |-> s, endDate |-> Add(AddDate(s, 0, 1, 0), 0 - 1)]

\* taskToRun: the current payment period from today's date and PayDate
CurrentPeriod(now, config) ==
    LET c == Civil(now)
        s == IF c.day >= config.PayDate
             THEN Date(c.year, c.month, config.PayDate, 0)
             ELSE Date(c.year, c.month - 1, config.PayDate, 0)
    IN  [startDate |-> s, endDate |-> Add(AddDate(s, 0, 1, 0), 0 - 1)]

\* the month counted from now rounded to the nearest midnight
FutureMonthRounded(now, i) == AddDate(Add(now, 12 * 60 * 60), 0, i, 0)

\* generateFutureTotalRemainingEvents: futureMonth := now.AddDate(0, i, 0)
FutureMonth(now, i) == AddDate(now, 0, i, 0)

getPaymentPeriodDates(year, month, payDate) ==
    [startDate |-> Date(year, month, payDate, 0),
     endDate   |-> IF month = 12
                   THEN Add(Date(year + 1, 1, payDate, 0), 0 - 1)
                   ELSE Add(Date(year, month + 1, payDate, 0), 0 - 1)]

\* manageTotalRemainingEvent: the switch on config.TotalRemainingOn
LiveEventDate(now, config) ==
    LET c == Civil(now)
    IN  IF config.TotalRemainingOn = LastDay
        THEN Add(Date(c.year, c.month + 1, 1, 0), 0 - SecondsPerDay)
        ELSE IF config.TotalRemainingOn = FirstDay
        THEN Date(c.year, c.month, 1, 0)
        ELSE LET e == Date(c.year, c.month, config.PayDate, 0)
             IN  IF c.day > config.PayDate THEN AddDate(e, 0, 1, 0) ELSE e

\* manageTotalRemainingEventForMonth: the switch on config.TotalRemainingOn
MonthEventDate(year, month, config) ==
    IF config.TotalRemainingOn = LastDay
    THEN Add(Date(year, month + 1, 1, 0), 0 - SecondsPerDay)
    ELSE IF config.TotalRemainingOn = FirstDay
    THEN Date(year, month, 1, 0)
    ELSE Date(year, month, config.PayDate, 0)

\* one iteration of the loop of generateFutureTotalRemainingEvents, as far
\* as dates go: the target month, its period and its placement date
WindowEntry(now, i, config) ==
    LET fm == Civil(FutureMonth(now, i))
        p  == getPaymentPeriodDates(fm.year, fm.month, config.PayDate)
    IN  [year      |-> fm.year,
         month     |-> fm.month,
         startDate |-> p.startDate,
         endDate   |-> p.endDate,
         eventDate |-> MonthEventDate(fm.year, fm.month, config)]

WindowMonths == 11

(***************************************************************************)
(* The remote calendar: a set of all-day events.  Start and end are the    *)
(* calendar dates of the event's EventDateTime.Date fields.                *)
(***************************************************************************)
EventStart(e) == Date(e.start[1], e.start[2], e.start[3], 0)

EventEnd(e) == Date(e.end[1], e.end[2], e.end[3], 0)

AllDayEvent(id, summary, t, color) ==
    [id      |-> id,
     summary |-> summary,
     start   |-> FormatDate(t),
     end     |-> FormatDate(AddDate(t, 0, 0, 1)),
     colorId |-> color]

\* Events.List(...).TimeMin(timeMin).TimeMax(timeMax).Q("Payment"): the
\* events mentioning the word that end after timeMin and start before timeMax
PaymentQuery(events, tMin, tMax) ==
    {e \in events : /\ Mentions(e.summary, "Payment")
                    /\ EventEnd(e) > tMin
                    /\ EventStart(e) < tMax}

\* a listing that leaves out the events of the years up to EpochYear
SummaryQueryRecent(events) ==
    {e \in events : Mentions(e.summary, "Total Remaining") /\ e.start[1] > EpochYear}

\* Events.List(...).Q("Total Remaining"), no time filter
SummaryQuery(events) == {e \in events : Mentions(e.summary, "Total Remaining")}

\* the sequences OrderBy("startTime") may return for a set of events: every
\* arrangement by non-decreasing start, events of one day in any order
ByStartTime(S) ==
    {q \in [1..Cardinality(S) -> S] :
        /\ \A a, b \in 1..Cardinality(S) : a # b => q[a] # q[b]
        /\ \A a, b \in 1..Cardinality(S) :
              a < b => EventStart(q[a]) <= EventStart(q[b])}

\* the listing of a set of events in the order of their identifiers
ById(S) ==
    [k \in 1..Cardinality(S) |->
        CHOOSE e \in S : Cardinality({f \in S : f.id < e.id}) = k - 1]

\* calculateTotalPayments, the loop over events.Items
RECURSIVE SumAmounts(_)
SumAmounts(its) ==
    IF its = <<>> THEN FloatZero
    ELSE LET r    == parseAmountFromSummary(its[Len(its)].summary)
             rest == SumAmounts(SubSeq(its, 1, Len(its) - 1))
         IN  IF r.ok THEN FloatAdd(rest, r.amount) ELSE rest

\* a query window that is never moved up to now
ClampStartNever(start, now) == start

\* calculateTotalPayments: "Ensure start date is not before today"
ClampStart(start, now) == IF start < now THEN now ELSE start

\* the calendar.Event built by both reconcilers
TotalRemainingEvent(id, tot, date) ==
    AllDayEvent(id, TotalRemainingSummary(tot), date, "11")

Summaries(events) == {e \in events : HasPrefix(e.summary, "Total Remaining")}

\* a purge that deletes nothing
PurgeNone(events) == events

\* manageTotalRemainingEvent when no remote call fails: delete every listed
\* event with the prefix, then insert the new event
PurgeAll(events) ==
    {e \in events : ~(e \in SummaryQuery(events) /\ HasPrefix(e.summary, "Total Remaining"))}

manageTotalRemainingEvent(events, id, tot, now, config) ==
    PurgeAll(events) \cup {TotalRemainingEvent(id, tot, LiveEventDate(now, config))}

\* manageTotalRemainingEventForMonth when the insert succeeds
manageTotalRemainingEventForMonth(events, id, tot, year, month, config) ==
    events \cup {TotalRemainingEvent(id, tot, MonthEventDate(year, month, config))}

(***************************************************************************)
(* State.                                                                  *)
(***************************************************************************)
VARIABLES
    config,     \* Config: TotalRemainingOn and PayDate
    clock,      \* what time.Now() returns
    store,      \* the events of the remote calendar
    nextId,     \* the identifier the calendar gives the next inserted event
    pc,         \* where the process is
    err,        \* the failure the process terminated with, "" if none
    taskNow,    \* taskToRun: now
    startDate,  \* taskToRun: startDate
    endDate,    \* taskToRun: endDate
    passStore,  \* the events of the calendar when taskToRun was entered
    calcNow,    \* calculateTotalPayments: now
    timeMin,    \* calculateTotalPayments: startDate after the clamp
    payments,   \* calculateTotalPayments: events.Items
    total,      \* the total handed to the reconciler
    eventDate,  \* manageTotalRemainingEvent: eventDate
    items,      \* manageTotalRemainingEvent: events.Items not yet visited
    futureNow,  \* generateFutureTotalRemainingEvents: now
    i,          \* generateFutureTotalRemainingEvents: i
    win,        \* the months, periods and placement dates of the iterations so far
    passes,     \* number of completed runs of taskToRun
    advances,   \* number of times the clock has moved
    tickAt,     \* main: the instant of the ticker's next tick
    buffered,   \* main: whether ticker.C holds a tick not yet received
    started,    \* main: number of calls of taskToRun made
    received,   \* main: number of ticks received from ticker.C
    passStart,  \* main: the instant of the latest call of taskToRun
    passEnd,    \* main: the instant the latest call of taskToRun returned
    calls,      \* the reconciler invocations made so far, most recent last
    text,       \* a summary handed to parseAmountFromSummary
    parsed,     \* what parseAmountFromSummary returned for it
    env         \* the environment variables read by getConfig

vars == <<config, clock, store, nextId, pc, err, taskNow, startDate, endDate,
          calcNow, timeMin, payments, total, eventDate, items, futureNow, i,
          win, passes, advances, calls, text, parsed, env, passStore,
          tickAt, buffered, started, received, passStart, passEnd>>

taskVars == <<taskNow, startDate, endDate, passStore>>

calcVars == <<calcNow, timeMin, payments, total>>

futureVars == <<futureNow, i, win>>

harnessVars == <<calls, text, parsed, env>>

tickVars == <<tickAt, buffered, started, received, passStart, passEnd>>

(***************************************************************************)
(* Bounds and the initial states explored.                                 *)
(***************************************************************************)
MaxPasses == 2

MaxAdvances == 1

MaxPayments == 2

MaxStale == 2

ClockStep == 12 * 60 * 60

Noon == 12 * 60 * 60

MainPayDates == {16, 31}

MainNows == {Date(2023, 4, 20, Noon), Date(2023, 1, 31, 0)}

PaymentFive == <<"Payment", " ", "£", "5">>

PaymentRent == <<"Payment", " ", "r", "e", "n", "t">>

PaymentTenth == <<"Payment", " ", "0", ".", "1", "0">>

\* payment events a user may have entered, by day relative to the instant t:
\* the day before, the same day, two days and forty days later
PaymentList(t) ==
    <<AllDayEvent(1, PaymentFive, AddDate(t, 0, 0, 0 - 1), ""),
      AllDayEvent(2, PaymentTenth, t, ""),
      AllDayEvent(3, PaymentRent, AddDate(t, 0, 0, 2), ""),
      AllDayEvent(4, PaymentFive, AddDate(t, 0, 0, 40), "")>>

\* events left in the calendar by earlier runs or by the user: a summary of
\* an earlier year, an event that mentions the words without beginning with
\* them, and two summaries of a coming day
StaleList(t) ==
    <<AllDayEvent(5, TotalRemainingSummary(ParseFloat(150, 2)), Date(EpochYear, 6, 1, 0), "11"),
      AllDayEvent(6, <<"r", "e", " ", "Total Remaining">>, AddDate(t, 0, 0, 3), ""),
      AllDayEvent(7, TotalRemainingSummary(ParseFloat(7, 0)), AddDate(t, 0, 0, 10), "11"),
      AllDayEvent(8, TotalRemainingSummary(ParseFloat(7, 0)), AddDate(t, 0, 0, 10), "11")>>

\* identifiers 1 to 8 are those of the events above
FirstFreeId == 8 + 1

FirstOf(list, n) == {list[k] : k \in 1..(IF n < Len(list) THEN n ELSE Len(list))}

TickIdle ==
    /\ tickAt = 0 /\ buffered = FALSE /\ started = 0 /\ received = 0
    /\ passStart = 0 /\ passEnd = 0

HarnessIdle ==
    /\ calls = <<>> /\ text = <<>> /\ parsed = [amount |-> FloatZero, ok |-> FALSE]
    /\ env = EnvUnset

LocalsIdle ==
    /\ err = ""
    /\ taskNow = 0 /\ startDate = 0 /\ endDate = 0 /\ passStore = {}
    /\ calcNow = 0 /\ timeMin = 0 /\ payments = <<>> /\ total = FloatZero
    /\ eventDate = 0 /\ items = <<>>
    /\ futureNow = 0 /\ i = 0 /\ win = <<>>
    /\ passes = 0 /\ advances = 0
    /\ TickIdle

Init ==
    /\ config \in [TotalRemainingOn : Policies \cup {"Weekly"}, PayDate : MainPayDates]
    /\ clock \in MainNows
    /\ \E np \in 0..MaxPayments, ns \in 0..MaxStale :
          store = FirstOf(PaymentList(clock), np) \cup FirstOf(StaleList(clock), ns)
    /\ nextId = FirstFreeId
    /\ pc = "main"
    /\ LocalsIdle
    /\ HarnessIdle

(***************************************************************************)
(* main and taskToRun, one action per remote call.                         *)
(***************************************************************************)
\* a failure that is logged, after which the loop of main goes on
FatalLogged(reason) == pc' = "wait" /\ err' = reason

\* log.Fatalf: the process terminates
Fatal(reason) == pc' = "exit" /\ err' = reason

\* main: the loop runs taskToRun; taskToRun up to the current period
TaskToRun ==
    /\ pc \in {"main", "wait"}
    /\ passes < MaxPasses
    /\ taskNow' = clock
    /\ startDate' = CurrentPeriod(clock, config).startDate
    /\ endDate' = CurrentPeriod(clock, config).endDate
    /\ passStore' = store
    /\ win' = <<>>
    /\ pc' = "liveTotal"
    /\ UNCHANGED <<config, clock, store, nextId, err, calcVars, eventDate, items,
                   futureNow, i, passes, advances, tickVars, harnessVars>>

\* calculateTotalPayments(srv, from, to) with a successful query
CalculateTotal(from, to) ==
    /\ calcNow' = clock
    /\ timeMin' = ClampStart(from, clock)
    /\ \E q \in ByStartTime(PaymentQuery(store, ClampStart(from, clock), to)) :
          /\ payments' = q
          /\ total' = SumAmounts(q)

LiveCalculateTotal ==
    /\ pc = "liveTotal"
    /\ CalculateTotal(startDate, endDate)
    /\ pc' = "liveManage"
    /\ UNCHANGED <<config, clock, store, nextId, err, taskVars, eventDate, items,
                   futureVars, passes, advances, tickVars, harnessVars>>

LiveCalculateTotalFail ==
    /\ pc = "liveTotal"
    /\ Fatal("payments")
    /\ UNCHANGED <<config, clock, store, nextId, taskVars, calcVars, eventDate, items,
                   futureVars, passes, advances, tickVars, harnessVars>>

\* a reconciler that deletes the existing summaries before it looks at the
\* placement policy
LiveManagePurgesFirst ==
    /\ pc = "liveManage"
    /\ IF config.TotalRemainingOn \notin Policies
       THEN /\ Fatal("config")
            /\ store' = PurgeAll(store)
            /\ UNCHANGED <<eventDate, items>>
       ELSE /\ eventDate' = LiveEventDate(clock, config)
            /\ items' = ById(SummaryQuery(store))
            /\ pc' = "livePurge"
            /\ UNCHANGED <<err, store>>
    /\ UNCHANGED <<config, clock, nextId, taskVars, calcVars,
                   futureVars, passes, advances, tickVars, harnessVars>>

\* manageTotalRemainingEvent up to the listing of the existing events
LiveManage ==
    /\ pc = "liveManage"
    /\ IF config.TotalRemainingOn \notin Policies
       THEN /\ Fatal("config")
            /\ UNCHANGED <<eventDate, items>>
       ELSE /\ eventDate' = LiveEventDate(clock, config)
            /\ items' = ById(SummaryQuery(store))
            /\ pc' = "livePurge"
            /\ err' = err
    /\ UNCHANGED <<config, clock, store, nextId, taskVars, calcVars,
                   futureVars, passes, advances, tickVars, harnessVars>>

LiveListFail ==
    /\ pc = "liveManage"
    /\ config.TotalRemainingOn \in Policies
    /\ Fatal("list")
    /\ UNCHANGED <<config, clock, store, nextId, taskVars, calcVars, eventDate, items,
                   futureVars, passes, advances, tickVars, harnessVars>>

\* a loop that deletes every listed event, whatever its text begins with
PurgeNextAnyListed ==
    /\ pc = "livePurge"
    /\ items # <<>>
    /\ store' = store \ {Head(items)}
    /\ items' = Tail(items)
    /\ UNCHANGED <<config, clock, nextId, pc, err, taskVars, calcVars, eventDate,
                   futureVars, passes, advances, tickVars, harnessVars>>

\* a loop over the listed events that deletes none of them
PurgeNextKeeps ==
    /\ pc = "livePurge"
    /\ items # <<>>
    /\ items' = Tail(items)
    /\ UNCHANGED <<config, clock, store, nextId, pc, err, taskVars, calcVars, eventDate,
                   futureVars, passes, advances, tickVars, harnessVars>>

\* one iteration of the loop over the listed events
PurgeNext ==
    /\ pc = "livePurge"
    /\ items # <<>>
    /\ store' = IF HasPrefix(Head(items).summary, "Total Remaining")
                THEN store \ {Head(items)}
                ELSE store
    /\ items' = Tail(items)
    /\ UNCHANGED <<config, clock, nextId, pc, err, taskVars, calcVars, eventDate,
                   futureVars, passes, advances, tickVars, harnessVars>>

\* a failed delete after which the insert is issued all the same
PurgeDeleteFailInserts ==
    /\ pc = "livePurge"
    /\ items # <<>>
    /\ HasPrefix(Head(items).summary, "Total Remaining")
    /\ Fatal("delete")
    /\ store' = store \cup {TotalRemainingEvent(nextId, total, eventDate)}
    /\ nextId' = nextId + 1
    /\ UNCHANGED <<config, clock, taskVars, calcVars, eventDate, items,
                   futureVars, passes, advances, tickVars, harnessVars>>

\* Events.Delete fails: manageTotalRemainingEvent returns the error
PurgeDeleteFail ==
    /\ pc = "livePurge"
    /\ items # <<>>
    /\ HasPrefix(Head(items).summary, "Total Remaining")
    /\ Fatal("delete")
    /\ UNCHANGED <<config, clock, store, nextId, taskVars, calcVars, eventDate, items,
                   futureVars, passes, advances, tickVars, harnessVars>>

LiveInsert ==
    /\ pc = "livePurge"
    /\ items = <<>>
    /\ store' = store \cup {TotalRemainingEvent(nextId, total, eventDate)}
    /\ nextId' = nextId + 1
    /\ pc' = "future"
    /\ UNCHANGED <<config, clock, err, taskVars, calcVars, eventDate, items,
                   futureVars, passes, advances, tickVars, harnessVars>>

LiveInsertFail ==
    /\ pc = "livePurge"
    /\ items = <<>>
    /\ Fatal("insert")
    /\ UNCHANGED <<config, clock, store, nextId, taskVars, calcVars, eventDate, items,
                   futureVars, passes, advances, tickVars, harnessVars>>

\* generateFutureTotalRemainingEvents up to the loop
FutureStart ==
    /\ pc = "future"
    /\ futureNow' = clock
    /\ i' = 1
    /\ pc' = "futureTotal"
    /\ UNCHANGED <<config, clock, store, nextId, err, taskVars, calcVars, eventDate,
                   items, win, passes, advances, tickVars, harnessVars>>

\* the loop body up to the total of month i
FutureCalculateTotal ==
    /\ pc = "futureTotal"
    /\ LET w == WindowEntry(futureNow, i, config)
       IN  /\ win' = Append(win, w)
           /\ CalculateTotal(w.startDate, w.endDate)
    /\ pc' = "futureManage"
    /\ UNCHANGED <<config, clock, store, nextId, err, taskVars, eventDate, items,
                   futureNow, i, passes, advances, tickVars, harnessVars>>

FutureCalculateTotalFail ==
    /\ pc = "futureTotal"
    /\ Fatal("payments")
    /\ UNCHANGED <<config, clock, store, nextId, taskVars, calcVars, eventDate, items,
                   futureVars, passes, advances, tickVars, harnessVars>>

\* manageTotalRemainingEventForMonth for month i, then the loop's increment
FutureManage ==
    /\ pc = "futureManage"
    /\ IF config.TotalRemainingOn \notin Policies
       THEN /\ Fatal("config")
            /\ UNCHANGED <<store, nextId, i, passes>>
       ELSE /\ store' = manageTotalRemainingEventForMonth(store, nextId, total,
                            win[i].year, win[i].month, config)
            /\ nextId' = nextId + 1
            /\ i' = i + 1
            /\ pc' = IF i = WindowMonths THEN "wait" ELSE "futureTotal"
            /\ passes' = IF i = WindowMonths THEN passes + 1 ELSE passes
            /\ err' = err
    /\ UNCHANGED <<config, clock, taskVars, calcVars, eventDate, items,
                   futureNow, win, advances, tickVars, harnessVars>>

FutureInsertFail ==
    /\ pc = "futureManage"
    /\ config.TotalRemainingOn \in Policies
    /\ Fatal("insert")
    /\ UNCHANGED <<config, clock, store, nextId, taskVars, calcVars, eventDate, items,
                   futureVars, passes, advances, tickVars, harnessVars>>

\* time passes
AdvanceClock ==
    /\ pc # "exit"
    /\ advances < MaxAdvances
    /\ clock' = clock + ClockStep
    /\ advances' = advances + 1
    /\ UNCHANGED <<config, store, nextId, pc, err, taskVars, calcVars, eventDate,
                   items, futureVars, passes, harnessVars, tickVars>>

Next ==
    \/ TaskToRun
    \/ LiveCalculateTotal
    \/ LiveCalculateTotalFail
    \/ LiveManage
    \/ LiveListFail
    \/ PurgeNext
    \/ PurgeDeleteFail
    \/ LiveInsert
    \/ LiveInsertFail
    \/ FutureStart
    \/ FutureCalculateTotal
    \/ FutureCalculateTotalFail
    \/ FutureManage
    \/ FutureInsertFail
    \/ AdvanceClock

Spec == Init /\ [][Next]_vars

(***************************************************************************)
(* The date computations of one run, applied to every date of NowYears and *)
(* every PayDate: the current period and live placement date, then the     *)
(* eleven window months.                                                   *)
(***************************************************************************)
NowSeconds == {0, Noon}

AllNows ==
    {Date(y, m, d, sec) : y \in NowYears, m \in 1..12, d \in 1..28, sec \in NowSeconds}
        \cup {Date(y, m, DaysIn(y, m) - k, sec) :
                  y \in NowYears, m \in 1..12, k \in 0..2, sec \in NowSeconds}

InitCalc ==
    /\ config \in [TotalRemainingOn : Policies, PayDate : 1..31]
    /\ clock \in AllNows
    /\ store = {}
    /\ nextId = FirstFreeId
    /\ pc = "calc"
    /\ LocalsIdle
    /\ HarnessIdle

\* taskToRun and manageTotalRemainingEvent: the dates of the live period
CalcLive ==
    /\ pc = "calc"
    /\ taskNow' = clock
    /\ startDate' = CurrentPeriod(clock, config).startDate
    /\ endDate' = CurrentPeriod(clock, config).endDate
    /\ passStore' = store
    /\ eventDate' = LiveEventDate(clock, config)
    /\ pc' = "calcWindow"
    /\ UNCHANGED <<config, clock, store, nextId, err, calcVars, items, futureVars,
                   passes, advances, tickVars, harnessVars>>

\* generateFutureTotalRemainingEvents: the dates of all iterations
CalcWindow ==
    /\ pc = "calcWindow"
    /\ futureNow' = clock
    /\ win' = [k \in 1..WindowMonths |-> WindowEntry(clock, k, config)]
    /\ i' = WindowMonths + 1
    /\ pc' = "calcDone"
    /\ UNCHANGED <<config, clock, store, nextId, err, taskVars, calcVars, eventDate,
                   items, passes, advances, tickVars, harnessVars>>

NextCalc == CalcLive \/ CalcWindow

SpecCalc == InitCalc /\ [][NextCalc]_vars

(***************************************************************************)
(* The two reconcilers invoked one after another, in any order, each call  *)
(* running to its end with no remote failure.                              *)
(***************************************************************************)
MaxCalls == 3

ReconcileTotals ==
    {ParseFloat(125000, 2), FloatAdd(ParseFloat(10, 2), ParseFloat(20, 2))}

ReconcileOffsets == {1}

InitReconcile ==
    /\ config \in [TotalRemainingOn : Policies, PayDate : MainPayDates]
    /\ clock \in MainNows
    /\ \E ns \in 0..MaxStale : store = FirstOf(StaleList(clock), ns)
    /\ nextId = FirstFreeId
    /\ pc = "reconcile"
    /\ LocalsIdle
    /\ HarnessIdle

ReconcileLive ==
    /\ pc = "reconcile"
    /\ Len(calls) < MaxCalls
    /\ \E t \in ReconcileTotals :
          /\ total' = t
          /\ store' = manageTotalRemainingEvent(store, nextId, t, clock, config)
          /\ calls' = Append(calls, [fn |-> "live", total |-> t, offset |-> 0,
                                     before |-> Cardinality(Summaries(store))])
    /\ eventDate' = LiveEventDate(clock, config)
    /\ nextId' = nextId + 1
    /\ UNCHANGED <<config, clock, pc, err, taskVars, calcNow, timeMin, payments, items,
                   futureVars, passes, advances, tickVars, text, parsed, env>>

ReconcileMonth ==
    /\ pc = "reconcile"
    /\ Len(calls) < MaxCalls
    /\ \E t \in ReconcileTotals, n \in ReconcileOffsets :
          LET fm == FutureMonth(clock, n)
          IN  /\ total' = t
              /\ store' = manageTotalRemainingEventForMonth(store, nextId, t,
                              Year(fm), Month(fm), config)
              /\ eventDate' = MonthEventDate(Year(fm), Month(fm), config)
              /\ calls' = Append(calls, [fn |-> "month", total |-> t, offset |-> n,
                                         before |-> Cardinality(Summaries(store))])
    /\ nextId' = nextId + 1
    /\ UNCHANGED <<config, clock, pc, err, taskVars, calcNow, timeMin, payments, items,
                   futureVars, passes, advances, tickVars, text, parsed, env>>

NextReconcile == ReconcileLive \/ ReconcileMonth

SpecReconcile == InitReconcile /\ [][NextReconcile]_vars

(***************************************************************************)
(* parseAmountFromSummary applied to every short text over a small         *)
(* alphabet and to the texts of the documented examples.                   *)
(***************************************************************************)
MaxTextLen == 5

TextAlphabet == {"1", ",", ".", "£", "x"}

ExampleTexts ==
    {<<"Payment", " ", "£", "1", ",", "2", "5", "0", ".", "0", "0">>,
     <<"Payment", " ", "9", "9">>,
     <<"n", "o", " ", "d", "i", "g", "i", "t", "s", " ", "h", "e", "r", "e">>,
     <<"£", "1", "2", ",", "3", "4", "5", ",", "6", "7", "8">>,
     <<"Payment", " ", "1", "5", "0", "0", ".", "5", "0">>,
     <<"Payment", " ", "2", " ", "o", "f", " ", "3", " ", "£", "4", "0">>}

Texts == ExampleTexts \cup UNION {[1..n -> TextAlphabet] : n \in 0..MaxTextLen}

InitParse ==
    /\ config \in [TotalRemainingOn : {FirstDay}, PayDate : {1}]
    /\ clock \in {Date(2023, 1, 1, 0)}
    /\ store = {}
    /\ nextId = FirstFreeId
    /\ pc = "parse"
    /\ LocalsIdle
    /\ calls = <<>>
    /\ env = EnvUnset
    /\ text \in Texts
    /\ parsed = [amount |-> FloatZero, ok |-> FALSE]

ParseSummary ==
    /\ pc = "parse"
    /\ parsed' = parseAmountFromSummary(text)
    /\ pc' = "parsed"
    /\ UNCHANGED <<config, clock, store, nextId, err, taskVars, calcVars, eventDate,
                   items, futureVars, passes, advances, tickVars, calls, text, env>>

NextParse == ParseSummary

SpecParse == InitParse /\ [][NextParse]_vars

(***************************************************************************)
(* The summing loop of calculateTotalPayments applied to every short list  *)
(* of payment events, in every order.                                      *)
(***************************************************************************)
MaxItems == 3

SumTexts ==
    <<PaymentTenth,
      <<"Payment", " ", "0", ".", "2", "0">>,
      <<"Payment", " ", "0", ".", "3", "0">>,
      PaymentRent>>

InitSum ==
    /\ config \in [TotalRemainingOn : {FirstDay}, PayDate : {1}]
    /\ clock \in {Date(2023, 1, 1, 0)}
    /\ store = {}
    /\ nextId = FirstFreeId
    /\ pc = "sum"
    /\ err = ""
    /\ taskNow = 0 /\ startDate = 0 /\ endDate = 0 /\ passStore = {}
    /\ calcNow = 0 /\ timeMin = 0 /\ total = FloatZero
    /\ \E n \in 0..MaxItems : \E f \in [1..n -> 1..Len(SumTexts)] :
          payments = [k \in 1..n |-> AllDayEvent(k, SumTexts[f[k]], clock, "")]
    /\ eventDate = 0 /\ items = <<>>
    /\ futureNow = 0 /\ i = 0 /\ win = <<>>
    /\ passes = 0 /\ advances = 0
    /\ TickIdle
    /\ HarnessIdle

SumPayments ==
    /\ pc = "sum"
    /\ total' = SumAmounts(payments)
    /\ pc' = "summed"
    /\ UNCHANGED <<config, clock, store, nextId, err, taskVars, calcNow, timeMin,
                   payments, eventDate, items, futureVars, passes, advances, tickVars,
                   harnessVars>>

NextSum == SumPayments

SpecSum == InitSum /\ [][NextSum]_vars

(***************************************************************************)
(* main: the ticker and the loop around taskToRun.  The clock counts       *)
(* minutes from the start of the process; a run of taskToRun is one call   *)
(* that returns or ends the process after any length of time.  ticker.C    *)
(* holds at most one tick: a tick that finds it full is dropped.           *)
(***************************************************************************)
MaxTime == 8

TickIntervals == {2, 3}

\* the state of taskToRun and of the calendar, which the loop does not read
runVars == <<store, nextId, taskVars, calcVars, eventDate, items, futureVars,
             advances, harnessVars>>

InitTick ==
    /\ config \in [TotalRemainingOn : {FirstDay}, PayDate : {1},
                   TickInterval : TickIntervals]
    /\ clock = 0
    /\ store = {}
    /\ nextId = FirstFreeId
    /\ pc = "tickInit"
    /\ LocalsIdle
    /\ HarnessIdle

\* ticker := time.NewTicker(config.TickInterval)
NewTicker ==
    /\ pc = "tickInit"
    /\ tickAt' = clock + config.TickInterval
    /\ pc' = "tickLoop"
    /\ UNCHANGED <<config, clock, err, passes, buffered, started, received,
                   passStart, passEnd, runVars>>

\* a loop that receives from ticker.C before every call, the first included
LoopFirstWaits ==
    /\ pc = "tickLoop"
    /\ buffered
    /\ buffered' = FALSE
    /\ received' = received + 1
    /\ started' = started + 1
    /\ passStart' = clock
    /\ pc' = "tickRunning"
    /\ UNCHANGED <<config, clock, err, passes, tickAt, passEnd, runVars>>

\* for ; true; <-ticker.C { taskToRun() }: the first iteration
LoopFirst ==
    /\ pc = "tickLoop"
    /\ started' = started + 1
    /\ passStart' = clock
    /\ pc' = "tickRunning"
    /\ UNCHANGED <<config, clock, err, passes, tickAt, buffered, received,
                   passEnd, runVars>>

\* taskToRun returns
PassReturns ==
    /\ pc = "tickRunning"
    /\ passes' = passes + 1
    /\ passEnd' = clock
    /\ pc' = "tickWait"
    /\ UNCHANGED <<config, clock, err, tickAt, buffered, started, received,
                   passStart, runVars>>

\* taskToRun ends the process with log.Fatalf
PassFails ==
    /\ pc = "tickRunning"
    /\ \E reason \in {"payments", "list", "delete", "insert", "config"} : Fatal(reason)
    /\ UNCHANGED <<config, clock, passes, tickVars, runVars>>

\* <-ticker.C, then the next iteration
LoopNext ==
    /\ pc = "tickWait"
    /\ buffered
    /\ buffered' = FALSE
    /\ received' = received + 1
    /\ started' = started + 1
    /\ passStart' = clock
    /\ pc' = "tickRunning"
    /\ UNCHANGED <<config, clock, err, passes, tickAt, passEnd, runVars>>

\* the ticker's period has elapsed: a tick is put into ticker.C, or dropped
\* if one is waiting there
TickFires ==
    /\ pc \notin {"tickInit", "exit"}
    /\ clock = tickAt
    /\ buffered' = TRUE
    /\ tickAt' = tickAt + config.TickInterval
    /\ UNCHANGED <<config, clock, pc, err, passes, started, received,
                   passStart, passEnd, runVars>>

\* a minute passes; the ticker fires before time moves past its instant
TimePasses ==
    /\ pc # "exit"
    /\ clock < MaxTime
    /\ pc = "tickInit" \/ clock < tickAt
    /\ clock' = clock + 1
    /\ UNCHANGED <<config, pc, err, passes, tickVars, runVars>>

NextTick ==
    \/ NewTicker
    \/ LoopFirst
    \/ PassReturns
    \/ PassFails
    \/ LoopNext
    \/ TickFires
    \/ TimePasses

SpecTick == InitTick /\ [][NextTick]_vars

(***************************************************************************)
(* getConfig applied to environments in which each variable is unset, a    *)
(* number, or something else.                                              *)
(***************************************************************************)
EnvNumbers ==
    {<<>>, <<"1", "6">>, <<"6", "0">>, <<"0">>, <<"x">>, <<"-", "5">>, <<"+", "7">>,
     <<"1", ".", "5">>}

InitConfig ==
    /\ env \in [TOTAL_REMAINING_ON : Policies \cup {"", "Weekly"},
                TIME_ZONE : {"", "Europe/London"},
                PAY_DATE : EnvNumbers,
                TICK_INTERVAL : EnvNumbers]
    /\ config = [TotalRemainingOn |-> "", TimeZone |-> "", PayDate |-> 0,
                 TickInterval |-> 0]
    /\ clock = 0
    /\ store = {}
    /\ nextId = FirstFreeId
    /\ pc = "config"
    /\ LocalsIdle
    /\ calls = <<>> /\ text = <<>> /\ parsed = [amount |-> FloatZero, ok |-> FALSE]

\* config := getConfig()
GetConfig ==
    /\ pc = "config"
    /\ config' = getConfig(env)
    /\ pc' = "configured"
    /\ UNCHANGED <<clock, store, nextId, err, taskVars, calcVars, eventDate, items,
                   futureVars, passes, advances, tickVars, harnessVars>>

NextConfig == GetConfig

SpecConfig == InitConfig /\ [][NextConfig]_vars

(***************************************************************************)
(* Runs of taskToRun without remote failures during which the clock moves  *)
(* between two reads of time.Now(), begun late on the last day of a month, *)
(* at the start of a month's last day, and in the middle of a month.       *)
(***************************************************************************)
LateEvening == 23 * 60 * 60

ClockNows == {Date(2023, 4, 30, LateEvening), Date(2023, 1, 31, 0), Date(2023, 4, 20, Noon)}

ClockPayDates == {1, 16}

InitClock ==
    /\ config \in [TotalRemainingOn : Policies, PayDate : ClockPayDates]
    /\ clock \in ClockNows
    /\ store = {}
    /\ nextId = FirstFreeId
    /\ pc = "main"
    /\ LocalsIdle
    /\ HarnessIdle

NextClock ==
    \/ TaskToRun
    \/ LiveCalculateTotal
    \/ LiveManage
    \/ PurgeNext
    \/ LiveInsert
    \/ FutureStart
    \/ FutureCalculateTotal
    \/ FutureManage
    \/ AdvanceClock

SpecClock == InitClock /\ [][NextClock]_vars

(***************************************************************************)
(* Properties.                                                             *)
(***************************************************************************)
SummaryCount == Cardinality(Summaries(store))

\* C1: whenever a run of taskToRun has completed without a remote failure,
\* whatever the calendar held before and however many runs came earlier, the
\* calendar holds exactly 12 events whose text begins with "Total Remaining".
C1_TwelveSummariesAfterPass == pc = "wait" => SummaryCount = WindowMonths + 1

\* a second run has completed: the first run's twelve events were purged
C1_Witness == pc = "wait" /\ passes >= 2 /\ SummaryCount = WindowMonths + 1

\* C3: after a completed run no two summary events lie on the same date.
C3_DistinctPlacementDates ==
    pc = "wait" => \A a, b \in Summaries(store) : a.start = b.start => a = b

\* the first instant of day d of month m of year y, stated on the calendar
IsMidnightOf(t, y, m, d) == FormatDate(t) = <<y, m, d>> /\ SecondOfDay(t) = 0

PreviousMonth(y, m) == IF m = 1 THEN <<y - 1, 12>> ELSE <<y, m - 1>>

FollowingMonth(y, m) == IF m = 12 THEN <<y + 1, 1>> ELSE <<y, m + 1>>

RECURSIVE MonthsAfter(_, _, _)
MonthsAfter(y, m, n) ==
    IF n = 0 THEN <<y, m>>
    ELSE LET f == FollowingMonth(y, m) IN MonthsAfter(f[1], f[2], n - 1)

DatesDone == pc \in {"calcWindow", "calcDone"}

\* C4: the period of window offset 1 starts where the live period ends (the
\* second after its last second), whether now's day is below PayDate or not.
C4_OffsetOneFollowsLive ==
    pc = "calcDone" => win[1].startDate = endDate + 1

\* C5: for every now, window offset n targets the month n months after
\* now's month, so the offsets cover the next 11 calendar months once each.
C5_WindowMonthsFollowNow ==
    pc = "calcDone" =>
        \A n \in 1..WindowMonths :
            <<win[n].year, win[n].month>> = MonthsAfter(Year(futureNow), Month(futureNow), n)

\* C6: for PayDate p in 1..28 and now on day d, the live period starts at
\* 00:00:00 on day p of now's month if d >= p and of the previous month
\* otherwise (December of the previous year for January), and it ends one
\* second before day p of the month after the start month.
C6_CurrentPeriodSelection ==
    (DatesDone /\ config.PayDate <= 28) =>
        LET y  == Year(taskNow)
            m  == Month(taskNow)
            sm == IF Day(taskNow) >= config.PayDate THEN <<y, m>> ELSE PreviousMonth(y, m)
            em == FollowingMonth(sm[1], sm[2])
        IN  /\ IsMidnightOf(startDate, sm[1], sm[2], config.PayDate)
            /\ IsMidnightOf(endDate + 1, em[1], em[2], config.PayDate)

\* a January date before the pay day: the period starts in December
C6_Witness ==
    /\ DatesDone
    /\ config.PayDate <= 28
    /\ Month(taskNow) = 1
    /\ Day(taskNow) < config.PayDate
    /\ Month(startDate) = 12
    /\ Year(startDate) = Year(taskNow) - 1

\* C7: for every PayDate in 1..31 and every now, the live period contains
\* now: start <= now <= end, and start < end.
C7_CurrentPeriodContainsNow ==
    DatesDone => startDate <= taskNow /\ taskNow <= endDate /\ startDate < endDate

LastCall == calls[Len(calls)]

CallBefore == calls[Len(calls) - 1]

\* the last two invocations were of the same reconciler, for the same period
\* and the same total
SameTwice(fn) ==
    /\ Len(calls) >= 2
    /\ LastCall.fn = fn /\ CallBefore.fn = fn
    /\ LastCall.total = CallBefore.total
    /\ LastCall.offset = CallBefore.offset

\* C2 as claimed: after either reconciler has been invoked twice in a row
\* with the same total T, exactly one "Total Remaining" event is in the
\* calendar and its text encodes T.
C2_ReconcileTwiceLeavesOne ==
    (SameTwice("live") \/ SameTwice("month")) =>
        /\ SummaryCount = 1
        /\ \A e \in Summaries(store) : e.summary = TotalRemainingSummary(LastCall.total)

\* C2 as amended: manageTotalRemainingEvent invoked twice in a row with the
\* same total T leaves exactly one "Total Remaining" event, with text
\* encoding T; manageTotalRemainingEventForMonth purges nothing, so two
\* invocations in a row leave two more such events than there were, both
\* with text encoding T.
C2_LiveTwiceLeavesOneMonthAdds ==
    /\ SameTwice("live") =>
          /\ SummaryCount = 1
          /\ \A e \in Summaries(store) : e.summary = TotalRemainingSummary(LastCall.total)
    /\ SameTwice("month") =>
          /\ SummaryCount = CallBefore.before + 2
          /\ \A e \in Summaries(store) :
                e.id >= nextId - 2 => e.summary = TotalRemainingSummary(LastCall.total)

\* the live reconciler ran twice in a row on a calendar that held two
\* summary events
C2_Witness == SameTwice("live") /\ CallBefore.before >= 2 /\ SummaryCount = 1

Orderings(n) == {f \in [1..n -> 1..n] : \A a, b \in 1..n : a # b => f[a] # f[b]}

HasAmount(e) == parseAmountFromSummary(e.summary).ok

\* C9: the total is the sum of the amounts of the returned events that have
\* one, an event without an amount adds nothing, and the total is the same
\* in whatever order the events are returned.
C9_TotalIndependentOfOrder ==
    pc = "summed" =>
        /\ total = SumAmounts(SelectSeq(payments, HasAmount))
        /\ \A f \in Orderings(Len(payments)) :
              SumAmounts([k \in 1..Len(payments) |-> payments[f[k]]]) = total

\* the end of the whole currency token that starts at position i: the pound
\* sign, the longer of the comma-grouped form and the plain digit run, and
\* the fraction that follows it; 0 if no token starts at i
WholeTokenEnd(s, p) ==
    LET k == IF At(s, p) = "£" THEN p + 1 ELSE p
        g == GroupedEnd(s, k)
        r == RunEnd(s, k)
    IN  IF r = 0 THEN 0
        ELSE IF FractionEnd(s, g) >= FractionEnd(s, r)
             THEN FractionEnd(s, g) ELSE FractionEnd(s, r)

WholeFirstToken(s) ==
    IF \A p \in 1..Len(s) : WholeTokenEnd(s, p) = 0 THEN <<>>
    ELSE LET p == CHOOSE k \in 1..Len(s) :
                      WholeTokenEnd(s, k) # 0 /\ \A j \in 1..(k - 1) : WholeTokenEnd(s, j) = 0
         IN  SubSeq(s, p, WholeTokenEnd(s, p) - 1)

\* C10: parseAmountFromSummary returns the value of the whole first currency
\* token (pound sign and commas stripped), a digit run of four or more
\* digits included, and found=false exactly for a text without a digit.
C10_ParsesWholeFirstToken ==
    pc = "parsed" =>
        /\ parsed.ok = (\E k \in 1..Len(text) : IsDigit(text[k]))
        /\ parsed.ok =>
              parsed.amount =
                  ParseFloatString(ReplaceAll(ReplaceAll(WholeFirstToken(text), "£"), ","))

\* the run was ended by a failure in iteration k of the loop of
\* generateFutureTotalRemainingEvents
FailedAtOffset(k) == pc = "exit" /\ i = k /\ k \in 1..WindowMonths

\* the events the current run has inserted and not deleted
Inserted == store \ passStore

\* the run's new summaries are in the calendar: that of the live period and
\* those of the window months before month k
NewSummariesKept(k) ==
    /\ Cardinality(Summaries(Inserted)) = k
    /\ \E e \in Summaries(Inserted) : e.start = FormatDate(eventDate)
    /\ \A n \in 1..(k - 1) :
          \E e \in Summaries(Inserted) : e.start = FormatDate(win[n].eventDate)

\* the summary events that were in the calendar before the run on the
\* placement dates of the window months after month k
EarlierSummariesAfter(k) ==
    {e \in Summaries(passStore) :
        \E n \in (k + 1)..WindowMonths :
            e.start = FormatDate(WindowEntry(futureNow, n, config).eventDate)}

\* C11: when the reconciliation of window month k fails, the calendar holds
\* the run's new summaries of the live period and of months 1..k-1, and the
\* summary events that were there before the run for months k+1..11 are
\* still there.
C11_PartialFailure ==
    \A k \in 1..WindowMonths :
        FailedAtOffset(k) =>
            /\ NewSummariesKept(k)
            /\ EarlierSummariesAfter(k) \subseteq store

\* the listed events that the delete loop has not visited yet
Unvisited == {items[k] : k \in 1..Len(items)}

\* the failure happened outside the loop over the window months
FailedInLivePath == pc = "exit" /\ i \notin 1..WindowMonths

\* C12: in manageTotalRemainingEvent, a failed delete ends the run with no
\* insert issued and with every summary event not yet deleted still in the
\* calendar; a failed insert after the whole purge leaves no summary event.
C12_LiveReconcileFailure ==
    /\ err = "delete" =>
          /\ pc = "exit"
          /\ Inserted = {}
          /\ Summaries(store) = Summaries(Unvisited)
          /\ Head(items) \in store
    /\ (err = "insert" /\ FailedInLivePath) => Summaries(store) = {}

\* the second delete of a purge failed: one summary is gone, one remains
C12_Witness ==
    /\ pc = "exit" /\ err = "delete"
    /\ Summaries(store) # {}
    /\ Summaries(passStore) \ store # {}

RemoteFailures == {"payments", "list", "delete", "insert"}

\* C13: once an operation on the calendar has failed the process has
\* terminated: it takes no further step, so the failed operation is not
\* repeated, the rest of the run is not executed and no other run starts.
C13_NoOperationAfterFailure ==
    /\ [](err # "" => pc = "exit")
    /\ [][pc = "exit" => UNCHANGED <<store, nextId, pc, err, calcVars, items, i, passes>>]_vars

\* a failure in the middle of the window: iterations were left to run
C13_Witness ==
    /\ pc = "exit"
    /\ err \in RemoteFailures
    /\ i \in 2..(WindowMonths - 1)
    /\ passes < MaxPasses

\* C14: with a placement policy that is none of the three, the run ends in
\* the configuration error before any delete or insert: the calendar holds
\* the events it held when the run began.
C14_InvalidPolicyLeavesStore ==
    err = "config" => pc = "exit" /\ store = passStore /\ nextId = FirstFreeId

\* the run ended in the configuration error with summaries in the calendar
C14_Witness == pc = "exit" /\ err = "config" /\ Summaries(store) # {}

\* C15: the first call of taskToRun is made without a tick having been
\* received, every later call follows the receipt of one tick, and a call
\* is made only when every earlier call has returned.
C15_FirstPassAtOnceNoOverlap ==
    [][started' = started + 1 =>
          /\ passes = started
          /\ received' = (IF started = 0 THEN received ELSE received + 1)
          /\ started = 0 => received = 0]_vars

\* a tick arrived while a call was running and the next call waited for the
\* return
C15_Witness ==
    /\ pc = "tickRunning"
    /\ started = 2 /\ received = 1 /\ passes = 1
    /\ passEnd > config.TickInterval
    /\ passStart = passEnd

\* C16: between the return of a call of taskToRun and the next call at
\* least TickInterval elapses.
C16_IntervalFromCompletion ==
    (pc = "tickRunning" /\ started >= 2) => passStart - passEnd >= config.TickInterval

\* C17: under "Last Day of the Month" the live summary is placed on the last
\* day, and under "First Day of the Month" on the first day, of the month
\* in which the live period starts, whether now's day is below PayDate or
\* not.
C17_LivePlacementInStartMonth ==
    (DatesDone /\ config.TotalRemainingOn \in {LastDay, FirstDay}) =>
        LET y == Year(startDate)
            m == Month(startDate)
        IN  IF config.TotalRemainingOn = FirstDay
            THEN IsMidnightOf(eventDate, y, m, 1)
            ELSE IsMidnightOf(eventDate, y, m, DaysIn(y, m))

\* C18: under "Pay Date" the live summary is placed on day PayDate of now's
\* month when now's day is at most PayDate and of the following month when
\* it is above, and the summary of every window month on day PayDate of
\* that month.
C18_PayDatePlacement ==
    (pc = "calcDone" /\ config.TotalRemainingOn = PayDay) =>
        LET y == Year(taskNow)
            m == Month(taskNow)
            f == FollowingMonth(y, m)
        IN  /\ IF Day(taskNow) <= config.PayDate
               THEN IsMidnightOf(eventDate, y, m, config.PayDate)
               ELSE IsMidnightOf(eventDate, f[1], f[2], config.PayDate)
            /\ \A n \in 1..WindowMonths :
                  IsMidnightOf(win[n].eventDate, win[n].year, win[n].month,
                               config.PayDate)

\* C19: for every policy, the placement date of the live summary lies in
\* the live period and that of every window month in that month's period:
\* start <= placement date < end.
C19_PlacementWithinPeriod ==
    pc = "calcDone" =>
        /\ startDate <= eventDate /\ eventDate < endDate
        /\ \A n \in 1..WindowMonths :
              win[n].startDate <= win[n].eventDate /\ win[n].eventDate < win[n].endDate

\* the event ended before the live period and before the live placement
\* date of the latest run: it lies before the twelve periods of the run
DatedBeforeWindow(e) == EventEnd(e) <= startDate /\ EventEnd(e) <= eventDate

\* C20 as claimed: a summary event dated outside the window of a run is
\* still in the calendar when the run has completed.
C20_StaleOutsideWindowRemains ==
    pc = "wait" =>
        \A e \in Summaries(passStore) : DatedBeforeWindow(e) => e \in store

\* C20 as amended: a completed run has deleted every summary event that was
\* in the calendar when it began, those dated outside its window included,
\* and leaves no summary dated before its window.
C20_StaleOutsideWindowPurged ==
    pc = "wait" =>
        /\ \A e \in Summaries(passStore) : e \notin store
        /\ \A e \in Summaries(store) : ~DatedBeforeWindow(e)

\* a summary of an earlier year was in the calendar when the run began and
\* is gone
C20_Witness ==
    /\ pc = "wait"
    /\ \E e \in Summaries(passStore) : DatedBeforeWindow(e) /\ e \notin store

\* the value of an environment variable is absent or is not an integer in
\* decimal notation
NotAnInteger(str) ==
    \/ str = <<>>
    \/ str \in {<<"+">>, <<"-">>}
    \/ \E k \in 1..Len(str) : ~IsDigit(str[k]) /\ ~(k = 1 /\ str[1] \in {"+", "-"})

\* C21: when TICK_INTERVAL is absent or not an integer the tick interval is
\* 60 minutes, and when PAY_DATE is absent or not an integer PayDate is 1.
C21_ConfigurationDefaults ==
    pc = "configured" =>
        /\ NotAnInteger(env.TICK_INTERVAL) => config.TickInterval = 60
        /\ NotAnInteger(env.PAY_DATE) => config.PayDate = 1

\* C22: for every window month the lower bound of the payment query is the
\* period start computed by getPaymentPeriodDates, not now.
C22_WindowQueryFromPeriodStart ==
    pc = "futureManage" => timeMin = win[i].startDate

\* every read of the clock in the run fell on the day of the first one (the
\* clock does not go back and calculateTotalPayments made the last read)
SameDayReads == DayNumber(calcNow) = DayNumber(taskNow)

\* C24: when all reads of now in a run fall on one calendar day, the live
\* period, the live placement date and the periods and placement dates of
\* the eleven window months are those computed from the run's first read.
C24_SameDayReadsAgree ==
    (pc = "wait" /\ SameDayReads) =>
        /\ startDate = CurrentPeriod(taskNow, config).startDate
        /\ endDate = CurrentPeriod(taskNow, config).endDate
        /\ eventDate = LiveEventDate(taskNow, config)
        /\ win = [n \in 1..WindowMonths |-> WindowEntry(taskNow, n, config)]

\* the clock moved within the day before the window months were computed
C24_Witness ==
    /\ pc = "wait"
    /\ SameDayReads
    /\ taskNow < futureNow

\* the month taskToRun builds the live period on: now's month if now's day
\* has reached PayDate, the month before otherwise
LiveAnchorMonth ==
    IF Day(taskNow) >= config.PayDate THEN <<Year(taskNow), Month(taskNow)>>
    ELSE PreviousMonth(Year(taskNow), Month(taskNow))

\* C23: for every PayDate in 1..31 the live period of taskToRun has the
\* start and end that getPaymentPeriodDates gives for the same month, and
\* its start is on day PayDate.
C23_PeriodConstructionsAgree ==
    DatesDone =>
        LET g == getPaymentPeriodDates(LiveAnchorMonth[1], LiveAnchorMonth[2],
                                       config.PayDate)
        IN  /\ startDate = g.startDate
            /\ endDate = g.endDate
            /\ Day(startDate) = config.PayDate

\* the events whose text does not begin with "Total Remaining"
OtherEvents(events) == events \ Summaries(events)

\* C25: no step of the program, in a run that completes or in one that
\* fails, deletes or changes an event whose text does not begin with
\* "Total Remaining": the set of these events stays as it is.
C25_OtherEventsUntouched ==
    [][OtherEvents(store') = OtherEvents(store)]_vars

\* a run has purged the summaries; a payment event and an event that the
\* summary listing returns without being a summary are still there
C25_Witness ==
    /\ pc = "wait"
    /\ Summaries(passStore) # {}
    /\ \E e \in OtherEvents(store) : Mentions(e.summary, "Payment")
    /\ \E e \in OtherEvents(store) : Mentions(e.summary, "Total Remaining")

(***************************************************************************)
(* The loop of main over any number of runs: every remote call returns     *)
(* without error, the ticker keeps sending, and the steps of the process   *)
(* are taken.  The calendar gives an inserted event an identifier that no  *)
(* event of the calendar has.                                              *)
(***************************************************************************)
LiveNow == Date(2023, 4, 20, Noon)

LivePayDates == {16}

FreshId(events) ==
    CHOOSE n \in 1..(Cardinality(events) + 1) :
        /\ \A e \in events : e.id # n
        /\ \A m \in 1..(n - 1) : \E e \in events : e.id = m

InitLive ==
    /\ config \in [TotalRemainingOn : Policies \cup {"Weekly"}, PayDate : LivePayDates]
    /\ clock = LiveNow
    /\ store = FirstOf(PaymentList(clock), MaxPayments) \cup FirstOf(StaleList(clock), MaxStale)
    /\ nextId = FirstFreeId
    /\ pc = "main"
    /\ LocalsIdle
    /\ HarnessIdle

\* taskToRun up to the current period
PassBegins ==
    /\ taskNow' = clock
    /\ startDate' = CurrentPeriod(clock, config).startDate
    /\ endDate' = CurrentPeriod(clock, config).endDate
    /\ passStore' = store
    /\ win' = <<>>
    /\ pc' = "liveTotal"
    /\ UNCHANGED <<config, clock, store, nextId, err, calcVars, eventDate, items,
                   futureNow, i, passes, advances, tickAt, started, received,
                   passStart, passEnd, harnessVars>>

\* for ; true; <-ticker.C { taskToRun() }: the first iteration
LoopFirstPass ==
    /\ pc = "main"
    /\ buffered' = buffered
    /\ PassBegins

\* a loop that returns when it has received the first tick
LoopNextPassReturns ==
    /\ pc = "wait"
    /\ buffered
    /\ buffered' = FALSE
    /\ pc' = "exit"
    /\ UNCHANGED <<config, clock, store, nextId, err, taskVars, calcVars, eventDate,
                   items, futureVars, passes, advances, tickAt, started, received,
                   passStart, passEnd, harnessVars>>

\* <-ticker.C, then the next iteration
LoopNextPass ==
    /\ pc = "wait"
    /\ buffered
    /\ buffered' = FALSE
    /\ PassBegins

\* the ticker sends on ticker.C, which holds one tick
TickArrives ==
    /\ pc # "exit"
    /\ ~buffered
    /\ buffered' = TRUE
    /\ UNCHANGED <<config, clock, store, nextId, pc, err, taskVars, calcVars, eventDate,
                   items, futureVars, passes, advances, tickAt, started, received,
                   passStart, passEnd, harnessVars>>

\* Events.Insert of manageTotalRemainingEvent
LoopLiveInsert ==
    /\ pc = "livePurge"
    /\ items = <<>>
    /\ store' = store \cup {TotalRemainingEvent(FreshId(store), total, eventDate)}
    /\ pc' = "future"
    /\ UNCHANGED <<config, clock, nextId, err, taskVars, calcVars, eventDate, items,
                   futureVars, passes, advances, tickVars, harnessVars>>

\* manageTotalRemainingEventForMonth for month i, then the loop's increment;
\* after the last month taskToRun returns
LoopFutureManage ==
    /\ pc = "futureManage"
    /\ IF config.TotalRemainingOn \notin Policies
       THEN /\ Fatal("config")
            /\ UNCHANGED <<store, i>>
       ELSE /\ store' = manageTotalRemainingEventForMonth(store, FreshId(store), total,
                            win[i].year, win[i].month, config)
            /\ i' = i + 1
            /\ pc' = IF i = WindowMonths THEN "wait" ELSE "futureTotal"
            /\ err' = err
    /\ UNCHANGED <<config, clock, nextId, taskVars, calcVars, eventDate, items,
                   futureNow, win, passes, advances, tickVars, harnessVars>>

\* the steps of the process
ProcessStep ==
    \/ LoopFirstPass
    \/ LoopNextPass
    \/ LiveCalculateTotal
    \/ LiveManage
    \/ PurgeNext
    \/ LoopLiveInsert
    \/ FutureStart
    \/ FutureCalculateTotal
    \/ LoopFutureManage

NextLive ==
    \/ LoopFirstPass
    \/ LoopNextPass
    \/ LiveCalculateTotal
    \/ LiveManage
    \/ PurgeNext
    \/ LoopLiveInsert
    \/ FutureStart
    \/ FutureCalculateTotal
    \/ LoopFutureManage
    \/ TickArrives
    \/ AdvanceClock

\* a step of the process is possible: ENABLED <<ProcessStep>>_vars, written
\* out from the guards of its actions
ProcessEnabled ==
    \/ pc \in {"main", "liveTotal", "liveManage", "livePurge", "future",
               "futureTotal", "futureManage"}
    \/ pc = "wait" /\ buffered

\* the process is scheduled: weak fairness of ProcessStep
ProcessRuns == []<>(~ProcessEnabled) \/ []<><<ProcessStep>>_vars

SpecLive ==
    /\ InitLive
    /\ [][NextLive]_vars
    /\ ProcessRuns
    /\ WF_vars(TickArrives)

\* a run is started
PassStarted == pc = "liveTotal"

====
